---------------------------- MODULE Spec2Model ----------------------------
(***************************************************************************)
(* Model of smoking_cost_streamlit.py: the pricing calculation             *)
(* (get_default_yield, smoking_cost), and the Streamlit session around it  *)
(* (login, the authentication gate, the session log, the e-mail report,    *)
(* logout).                                                                *)
(*                                                                         *)
(* Numbers.  The program computes in Python floats (binary doubles).  The  *)
(* model computes in exact rationals [n, d] in lowest terms; a value with  *)
(* d = 0 stands for an arithmetic operation that raised (division by       *)
(* zero, failed lookup) and poisons everything computed from it, as the    *)
(* exception aborts the function.  round(x, k) is modelled as round-half-  *)
(* to-even on the exact value and math.ceil as the exact ceiling; the      *)
(* representation error of doubles and overflow to infinity are outside    *)
(* the model.                                                              *)
(*                                                                         *)
(* Strings are sequences of one-character strings, so that str.lower and   *)
(* str.title are computed character by character.                          *)
(***************************************************************************)
EXTENDS Integers, Sequences, FiniteSets, TLC

VARIABLES
    authenticated,   \* st.session_state.authenticated
    has_log,         \* "log" in st.session_state
    log,             \* st.session_state.log (meaningful when has_log)
    passcode_input,  \* st.session_state["passcode_input"] ("" when absent)
    page,            \* which branch of the script rendered last: "login" | "app"
    form,            \* the values of the input widgets of the app page
    outbox,          \* the report handed to SMTP by the last email_csv call
    add_clicks,      \* how many times "Add to Log" was pressed (history)
    args,            \* the arguments of the smoking_cost call under study
    result,          \* what that call produced
    meat_type,       \* the argument of the get_default_yield call under study
    yield_result     \* what that call produced

vars == <<authenticated, has_log, log, passcode_input, page, form, outbox,
          add_clicks, args, result, meat_type, yield_result>>

uiVars   == <<authenticated, has_log, log, passcode_input, page, form, outbox, add_clicks>>
calcVars == <<args, result>>
yieldVars == <<meat_type, yield_result>>

-----------------------------------------------------------------------------
(* Strings *)

LowerLetters == <<"a","b","c","d","e","f","g","h","i","j","k","l","m",
                  "n","o","p","q","r","s","t","u","v","w","x","y","z">>
UpperLetters == <<"A","B","C","D","E","F","G","H","I","J","K","L","M",
                  "N","O","P","Q","R","S","T","U","V","W","X","Y","Z">>

IsUpper(c) == \E i \in DOMAIN UpperLetters : UpperLetters[i] = c
IsLower(c) == \E i \in DOMAIN LowerLetters : LowerLetters[i] = c
IsCased(c) == IsUpper(c) \/ IsLower(c)

\* str.lower() and str.upper() on one character
lower_char(c) ==
    IF IsUpper(c)
    THEN LowerLetters[CHOOSE i \in DOMAIN UpperLetters : UpperLetters[i] = c]
    ELSE c
upper_char(c) ==
    IF IsLower(c)
    THEN UpperLetters[CHOOSE i \in DOMAIN LowerLetters : LowerLetters[i] = c]
    ELSE c

\* str.lower()
lower(s) == [i \in DOMAIN s |-> lower_char(s[i])]

\* str.title(): a cased character is upper-cased when it follows an uncased
\* character (or starts the string) and lower-cased otherwise
title(s) ==
    [i \in DOMAIN s |->
        IF i = 1 \/ ~IsCased(s[i - 1]) THEN upper_char(s[i]) ELSE lower_char(s[i])]

-----------------------------------------------------------------------------
(* Exact rationals *)

RECURSIVE GCD(_, _)
GCD(a, b) == IF b = 0 THEN a ELSE GCD(b, a % b)

Abs(i) == IF i < 0 THEN -i ELSE i

\* the rational n/d (d > 0) in lowest terms
Rat(n, d) ==
    LET g == GCD(Abs(n), d)
    IN  [n |-> n \div g, d |-> d \div g]

\* a value that was never produced because its computation raised
Raised == [n |-> 0, d |-> 0]
IsRaised(x) == x.d = 0

FromInt(i) == [n |-> i, d |-> 1]
Zero == FromInt(0)

Add(x, y) == IF IsRaised(x) \/ IsRaised(y) THEN Raised
             ELSE Rat(x.n * y.d + y.n * x.d, x.d * y.d)
Sub(x, y) == IF IsRaised(x) \/ IsRaised(y) THEN Raised
             ELSE Rat(x.n * y.d - y.n * x.d, x.d * y.d)
Mul(x, y) == IF IsRaised(x) \/ IsRaised(y) THEN Raised
             ELSE Rat(x.n * y.n, x.d * y.d)
\* x / y: ZeroDivisionError when y = 0
Div(x, y) == IF IsRaised(x) \/ IsRaised(y) \/ y.n = 0 THEN Raised
             ELSE IF y.n > 0 THEN Rat(x.n * y.d, x.d * y.n)
             ELSE Rat(-(x.n * y.d), x.d * (-y.n))

\* comparisons of two values that were produced
Less(x, y) == x.n * y.d < y.n * x.d
LessEq(x, y) == x.n * y.d <= y.n * x.d
Positive(x) == x.n > 0

\* math.ceil(x): an int
ceil(x) == -((-x.n) \div x.d)

\* int(x): truncation toward zero
int(x) == IF x.n >= 0 THEN x.n \div x.d ELSE -((-x.n) \div x.d)

Pow10(k) == IF k = 0 THEN 1 ELSE IF k = 1 THEN 10 ELSE 100

\* round(x, ndigits): to the nearest multiple of 10^-ndigits, ties to even
round(x, ndigits) ==
    IF IsRaised(x) THEN Raised
    ELSE LET s == Pow10(ndigits)
             q == x.n * s
             f == q \div x.d
             r == 2 * (q % x.d)
             m == IF r < x.d THEN f
                  ELSE IF r > x.d THEN f + 1
                  ELSE IF f % 2 = 0 THEN f ELSE f + 1
         IN  Rat(m, s)

-----------------------------------------------------------------------------
(* get_default_yield *)

K_brisket       == <<"b","r","i","s","k","e","t">>
K_pork_butt     == <<"p","o","r","k"," ","b","u","t","t">>
K_pork_shoulder == <<"p","o","r","k"," ","s","h","o","u","l","d","e","r">>
K_ribs          == <<"r","i","b","s">>
K_beef_ribs     == <<"b","e","e","f"," ","r","i","b","s">>
K_pork_ribs     == <<"p","o","r","k"," ","r","i","b","s">>
K_chicken       == <<"c","h","i","c","k","e","n">>
K_turkey        == <<"t","u","r","k","e","y">>
K_tri_tip       == <<"t","r","i","-","t","i","p">>
K_sausage       == <<"s","a","u","s","a","g","e">>
K_other         == <<"o","t","h","e","r">>

\* the dict literal yield_map
yield_map ==
    (K_brisket :> Rat(60, 100)) @@ (K_pork_butt :> Rat(67, 100)) @@
    (K_pork_shoulder :> Rat(67, 100)) @@ (K_ribs :> Rat(65, 100)) @@
    (K_beef_ribs :> Rat(60, 100)) @@ (K_pork_ribs :> Rat(65, 100)) @@
    (K_chicken :> Rat(78, 100)) @@ (K_turkey :> Rat(72, 100)) @@
    (K_tri_tip :> Rat(80, 100)) @@ (K_sausage :> Rat(90, 100)) @@
    (K_other :> Rat(70, 100))

\* d[k]: KeyError when k is not a key
dict_index(d, k) == IF k \in DOMAIN d THEN d[k] ELSE Raised

\* d.get(k, default)
dict_get(d, k, default) == IF k \in DOMAIN d THEN d[k] ELSE default

\* the lookup without lower()
get_default_yield_cased(mt) ==
    dict_get(yield_map, mt, dict_index(yield_map, K_other))

get_default_yield(mt) ==
    dict_get(yield_map, lower(mt), dict_index(yield_map, K_other))

-----------------------------------------------------------------------------
(* smoking_cost: its locals, in the order the function computes them, each *)
(* as an operator of the argument record a                                 *)

ELECTRICITY_RATE == Rat(25, 100)

pellet_price_per_lb(a) == Div(a.pellet_bag_cost, a.pellet_bag_weight)
pellet_used_lbs(a) == Mul(a.smoking_hours, a.pellet_usage_per_hour_lb)
electricity_cost(a) == Mul(pellet_used_lbs(a), ELECTRICITY_RATE)
\* pellet_cost without the electricity surcharge
pellet_cost_no_electricity(a) ==
    Mul(pellet_used_lbs(a), pellet_price_per_lb(a))

pellet_cost(a) ==
    Add(Mul(pellet_used_lbs(a), pellet_price_per_lb(a)), electricity_cost(a))

cook_yield(a) == get_default_yield(a.meat_type)
cooked_meat_lbs(a) == Mul(a.raw_meat_weight_lbs, cook_yield(a))
\* servings without the serving_size_lbs > 0 test
servings_unguarded(a) == Div(cooked_meat_lbs(a), a.serving_size_lbs)

servings(a) ==
    IF Positive(a.serving_size_lbs)
    THEN Div(cooked_meat_lbs(a), a.serving_size_lbs)
    ELSE Zero

meat_cost(a) == Mul(a.raw_meat_weight_lbs, a.meat_price_per_lb)
total_cost(a) ==
    Add(Add(Add(meat_cost(a), pellet_cost(a)), a.seasoning_cost), a.misc_cost)
\* cost_per_serving without the servings > 0 test
cost_per_serving_unguarded(a) == Div(total_cost(a), servings(a))

cost_per_serving(a) ==
    LET s == servings(a)
    IN  IF IsRaised(s) THEN Raised
        ELSE IF Positive(s) THEN Div(total_cost(a), s)
        ELSE Zero

\* the markup divided out instead of multiplied in
retail_price_divided(a) == Div(cost_per_serving(a), a.markup_multiplier)

retail_price_per_serving(a) == Mul(cost_per_serving(a), a.markup_multiplier)
tax_multiplier(a) == Add(FromInt(1), Div(a.tax_rate, FromInt(100)))
menu_price_pre_round(a) == Mul(retail_price_per_serving(a), tax_multiplier(a))
\* menu_price rounded to the nearest whole unit instead of up
menu_price_nearest(a) ==
    LET pre == menu_price_pre_round(a)
    IN  IF IsRaised(pre) THEN 0 ELSE round(pre, 0).n

\* an int; 0 stands in when menu_price_pre_round raised (never read then)
menu_price(a) ==
    LET pre == menu_price_pre_round(a)
    IN  IF IsRaised(pre) THEN 0 ELSE ceil(pre)

true_taxable_base(a) ==
    LET pre == menu_price_pre_round(a)
    IN  IF IsRaised(pre) THEN Raised
        ELSE round(Div(FromInt(menu_price(a)), tax_multiplier(a)), 2)
\* the tax portion taken from the unrounded price
true_tax_portion_pre_round(a) ==
    round(Sub(menu_price_pre_round(a), true_taxable_base(a)), 2)

true_tax_portion(a) == round(Sub(FromInt(menu_price(a)), true_taxable_base(a)), 2)

\* "Servings": int(servings)
servings_reported(a) == IF IsRaised(servings(a)) THEN 0 ELSE int(servings(a))

\* "Full Meat Menu Price": round(menu_price * servings, 2)
full_meat_menu_price(a) == round(Mul(FromInt(menu_price(a)), servings(a)), 2)

\* the statements of smoking_cost that can raise, in program order
raises(a) ==
    \/ IsRaised(pellet_price_per_lb(a))
    \/ IsRaised(cook_yield(a))
    \/ IsRaised(servings(a))
    \/ IsRaised(cost_per_serving(a))
    \/ IsRaised(tax_multiplier(a))
    \/ IsRaised(true_taxable_base(a))

\* smoking_cost(...) called on date now: the dict it returns, or the
\* exception that ends it
smoking_cost(a, now) ==
    IF raises(a) THEN [kind |-> "raised"]
    ELSE [ kind |-> "returned",
           Date |-> now,
           MeatType |-> title(a.meat_type),
           RawWeight |-> a.raw_meat_weight_lbs,
           CookedWeight |-> round(cooked_meat_lbs(a), 2),
           YieldPct |-> round(Mul(cook_yield(a), FromInt(100)), 1),
           Servings |-> servings_reported(a),
           MeatCost |-> round(meat_cost(a), 2),
           PelletUsed |-> round(pellet_used_lbs(a), 2),
           PelletCost |-> round(pellet_cost(a), 2),
           TotalCost |-> round(total_cost(a), 2),
           CostPerServing |-> round(cost_per_serving(a), 2),
           FullMeatMenuPrice |-> full_meat_menu_price(a),
           MenuPricePerServing |-> menu_price(a),
           TaxRate |-> a.tax_rate,
           TaxPortionPerServing |-> true_tax_portion(a),
           MarkupMultiplier |-> a.markup_multiplier ]

-----------------------------------------------------------------------------
(* The calculation on its own: smoking_cost applied to chosen arguments *)

MaxRawSteps == 2
MaxMarkupSteps == 2

S_Brisket  == <<"B","r","i","s","k","e","t">>
S_PorkButt == <<"P","o","r","k"," ","B","u","t","t">>
S_Ribs     == <<"R","i","b","s">>
S_Chicken  == <<"C","h","i","c","k","e","n">>
S_Turkey   == <<"T","u","r","k","e","y">>
S_TriTip   == <<"T","r","i","-","t","i","p">>
S_Other    == <<"O","t","h","e","r">>
S_Wagyu    == <<"W","a","g","y","u">>

\* what datetime.now().strftime("%Y-%m-%d") may return
Dates == {"2025-11-04", "2025-11-05"}

\* the values each argument is drawn from; 0 for serving_size_lbs is the
\* documented degenerate case, 0 for raw_meat_weight_lbs and
\* pellet_bag_weight lie outside the documented domain
ArgValues ==
    [ meat_type |-> {K_brisket, S_Chicken, S_PorkButt, S_TriTip, S_Wagyu},
      raw_meat_weight_lbs |-> {FromInt(5 * k) : k \in 0..MaxRawSteps},
      meat_price_per_lb |-> {Zero, Rat(7, 2)},
      serving_size_lbs |-> {Zero, Rat(1, 10), Rat(7, 20), Rat(1, 2)},
      smoking_hours |-> {FromInt(1), FromInt(8)},
      pellet_bag_cost |-> {FromInt(20)},
      pellet_bag_weight |-> {Zero, FromInt(40)},
      pellet_usage_per_hour_lb |-> {Rat(3, 2)},
      seasoning_cost |-> {FromInt(5)},
      misc_cost |-> {Zero, FromInt(2)},
      markup_multiplier |-> {Rat(2 + k, 2) : k \in 0..MaxMarkupSteps},
      tax_rate |-> {Zero, FromInt(11), Rat(33, 4), FromInt(150)} ]

\* the widgets' default values (value=...), which are also the arguments of
\* the documented end-to-end example
DefaultArgs ==
    [ meat_type |-> S_Brisket,
      raw_meat_weight_lbs |-> FromInt(10),
      meat_price_per_lb |-> Rat(7, 2),
      serving_size_lbs |-> Rat(1, 2),
      smoking_hours |-> FromInt(8),
      pellet_bag_cost |-> FromInt(20),
      pellet_bag_weight |-> FromInt(40),
      pellet_usage_per_hour_lb |-> Rat(3, 2),
      seasoning_cost |-> FromInt(5),
      misc_cost |-> FromInt(2),
      markup_multiplier |-> FromInt(2),
      tax_rate |-> FromInt(11) ]

NoResult == [kind |-> "none"]
\* no call made yet (no fraction has a negative denominator)
NoYield == [n |-> 0, d |-> -1]

\* the state of a session in which the script has run once
UIInit ==
    /\ authenticated = FALSE
    /\ has_log = FALSE
    /\ log = <<>>
    /\ passcode_input = ""
    /\ page = "login"
    /\ form = DefaultArgs
    /\ outbox = [status |-> "none"]
    /\ add_clicks = 0

CalcStart == args = DefaultArgs /\ result = NoResult
YieldStart == meat_type = K_brisket /\ yield_result = NoYield

Init == UIInit /\ CalcStart /\ YieldStart

\* the caller fixes one argument of the next call
ChooseArg ==
    \E f \in DOMAIN ArgValues : \E v \in ArgValues[f] :
        /\ args' = [args EXCEPT ![f] = v]
        /\ result' = NoResult
        /\ UNCHANGED <<uiVars, yieldVars>>

\* the call itself
CallSmokingCost ==
    \E now \in Dates :
        /\ result = NoResult
        /\ result' = smoking_cost(args, now)
        /\ UNCHANGED <<args, uiVars, yieldVars>>

CalcNext == ChooseArg \/ CallSmokingCost

CalcSpec == Init /\ [][CalcNext]_vars

-----------------------------------------------------------------------------
(* The lookup on its own: get_default_yield applied to chosen strings *)

S_Empty        == <<>>
S_brisket_sp   == <<"b","r","i","s","k","e","t"," ">>
S_pork         == <<"p","o","r","k">>
S_tri_tip_sp   == <<"t","r","i"," ","t","i","p">>

\* the strings the caller starts from: every key of the table, and strings
\* that are no key (an unknown name, the empty string, a key with a
\* trailing blank, a proper prefix of a key, a key spelt with a blank for
\* its hyphen)
YieldInputs ==
    DOMAIN yield_map \cup {S_Wagyu, S_Empty, S_brisket_sp, S_pork, S_tri_tip_sp}

swapcase_char(c) == IF IsUpper(c) THEN lower_char(c) ELSE upper_char(c)

\* the caller picks a string
PickMeatType ==
    \E s \in YieldInputs :
        /\ meat_type' = s
        /\ yield_result' = NoYield
        /\ UNCHANGED <<uiVars, calcVars>>

\* the caller changes the case of one letter of the string
ToggleCase ==
    \E i \in DOMAIN meat_type :
        /\ IsCased(meat_type[i])
        /\ meat_type' = [meat_type EXCEPT ![i] = swapcase_char(@)]
        /\ yield_result' = NoYield
        /\ UNCHANGED <<uiVars, calcVars>>

\* the call itself
CallGetDefaultYield ==
    /\ yield_result = NoYield
    /\ yield_result' = get_default_yield(meat_type)
    /\ UNCHANGED <<meat_type, uiVars, calcVars>>

YieldNext == PickMeatType \/ ToggleCase \/ CallGetDefaultYield

YieldSpec == Init /\ [][YieldNext]_vars

-----------------------------------------------------------------------------
(* The Streamlit session.  Every user action runs its callback, if it has  *)
(* one, and then the whole script from the top; an action below is that    *)
(* callback followed by that script run.                                   *)

MaxLog == 2

\* st.secrets["PASSCODE"], and what a user may type into the passcode field
PASSCODE == "smoke"
Passcodes == {"", "smoke", "wrong"}

\* the options of the "Select Meat Type" selectbox
MEAT_OPTIONS == <<S_Brisket, S_PorkButt, S_Ribs, S_Chicken, S_Turkey, S_TriTip, S_Other>>

\* min_value of each number_input
WidgetMin ==
    [ raw_meat_weight_lbs |-> Rat(1, 10),
      meat_price_per_lb |-> FromInt(1),
      serving_size_lbs |-> Rat(1, 10),
      smoking_hours |-> FromInt(1),
      pellet_bag_cost |-> FromInt(1),
      pellet_bag_weight |-> FromInt(1),
      pellet_usage_per_hour_lb |-> Rat(1, 10),
      seasoning_cost |-> FromInt(1),
      misc_cost |-> Zero,
      markup_multiplier |-> FromInt(1),
      tax_rate |-> Zero ]

\* the numbers a user tries to enter into number inputs
TypedValues ==
    [ serving_size_lbs |-> {Zero, Rat(1, 2)},
      meat_price_per_lb |-> {Zero, Rat(7, 2)} ]

\* the session takes place on one day
SessionDates == {"2025-11-05"}

\* login() accepting the blank default of the passcode field as well
login_accepts_blank(entered) ==
    IF entered = PASSCODE \/ entered = "" THEN TRUE ELSE authenticated

\* login(): the value of st.session_state.authenticated after the callback
login(entered) == IF entered = PASSCODE THEN TRUE ELSE authenticated

\* the script, lines 117-137: the branch taken, and the log created on the
\* first run of the app branch
page_rendered(auth) == IF auth THEN "app" ELSE "login"
has_log_after(auth) == has_log \/ auth
\* the log re-created on every run of the app branch
log_after_init_always(auth, lg) == IF auth THEN <<>> ELSE lg
log_after_init(auth, lg) == IF auth /\ ~has_log THEN <<>> ELSE lg

\* a script run in which no button reads True
RunScript(auth) ==
    /\ page' = page_rendered(auth)
    /\ has_log' = has_log_after(auth)
    /\ log' = log_after_init(auth, log)
    /\ UNCHANGED outbox

\* the passcode field changes and is committed: on_change=login
SubmitPasscode ==
    \E p \in Passcodes :
        /\ page = "login"
        /\ p # passcode_input
        /\ passcode_input' = p
        /\ authenticated' = login(p)
        /\ RunScript(authenticated')
        /\ UNCHANGED <<form, add_clicks, calcVars, yieldVars>>

\* the Login button: on_click=login
ClickLogin ==
    /\ page = "login"
    /\ authenticated' = login(passcode_input)
    /\ RunScript(authenticated')
    /\ UNCHANGED <<passcode_input, form, add_clicks, calcVars, yieldVars>>

\* the selectbox changes
SelectMeatType ==
    \E i \in DOMAIN MEAT_OPTIONS :
        /\ page = "app"
        /\ form' = [form EXCEPT !.meat_type = MEAT_OPTIONS[i]]
        /\ RunScript(authenticated)
        /\ UNCHANGED <<authenticated, passcode_input, add_clicks, calcVars, yieldVars>>

\* a number input changes; the widget refuses a value below its min_value
EnterNumber ==
    \E f \in DOMAIN TypedValues : \E v \in TypedValues[f] :
        /\ page = "app"
        /\ LessEq(WidgetMin[f], v)
        /\ form' = [form EXCEPT ![f] = v]
        /\ RunScript(authenticated)
        /\ UNCHANGED <<authenticated, passcode_input, add_clicks, calcVars, yieldVars>>

\* the "Add to Log" button: lines 157-164
AddToLog ==
    \E now \in SessionDates :
        /\ page = "app"
        /\ add_clicks < MaxLog
        /\ LET entry == smoking_cost(form, now)
               lg == log_after_init(authenticated, log)
           IN  log' = IF entry.kind = "returned" THEN Append(lg, entry) ELSE lg
        /\ page' = page_rendered(authenticated)
        /\ has_log' = has_log_after(authenticated)
        /\ add_clicks' = add_clicks + 1
        /\ UNCHANGED <<authenticated, passcode_input, form, outbox, calcVars, yieldVars>>

\* the "Email Report" button, rendered while the log is not empty: lines
\* 166-174 and email_csv; the credentials may be missing and the SMTP
\* exchange may fail
EmailReport ==
    \E outcome \in {"missing", "sent", "failed"} :
        /\ page = "app"
        /\ log # <<>>
        /\ outbox' = IF outcome = "missing" THEN [status |-> "missing"]
                     ELSE [status |-> outcome, attachment |-> log]
        /\ page' = page_rendered(authenticated)
        /\ has_log' = has_log_after(authenticated)
        /\ log' = log_after_init(authenticated, log)
        /\ UNCHANGED <<authenticated, passcode_input, form, add_clicks, calcVars, yieldVars>>

\* the Logout button: its on_click sets authenticated to False; the login
\* branch renders, the app's widgets are gone and come back with their
\* defaults, and the passcode field shows either what the session state
\* still holds or nothing
Logout ==
    /\ page = "app"
    /\ authenticated' = FALSE
    /\ RunScript(authenticated')
    /\ passcode_input' \in {passcode_input, ""}
    /\ form' = DefaultArgs
    /\ UNCHANGED <<add_clicks, calcVars, yieldVars>>

\* a script run without any widget event
Rerun ==
    /\ RunScript(authenticated)
    /\ UNCHANGED <<authenticated, passcode_input, form, add_clicks, calcVars, yieldVars>>

Next ==
    \/ SubmitPasscode
    \/ ClickLogin
    \/ SelectMeatType
    \/ EnterNumber
    \/ AddToLog
    \/ EmailReport
    \/ Logout
    \/ Rerun

Spec == Init /\ [][Next]_vars

-----------------------------------------------------------------------------
(* Claims about the calculation (checked under CalcSpec) *)

\* the documented domain of the arguments
InDomain(a) ==
    /\ Positive(a.raw_meat_weight_lbs)
    /\ Positive(a.smoking_hours)
    /\ Positive(a.pellet_bag_cost)
    /\ Positive(a.pellet_bag_weight)
    /\ Positive(a.pellet_usage_per_hour_lb)
    /\ a.meat_price_per_lb.n >= 0
    /\ a.serving_size_lbs.n >= 0
    /\ a.seasoning_cost.n >= 0
    /\ a.misc_cost.n >= 0
    /\ a.markup_multiplier.n >= a.markup_multiplier.d
    /\ a.tax_rate.n >= 0

Returned == result.kind = "returned"

\* 1 + tax_rate/100 and the unrounded price, restated from the arguments
ClaimTaxMultiplier == Rat(100 * args.tax_rate.d + args.tax_rate.n, 100 * args.tax_rate.d)
ClaimPreRound ==
    Mul(Mul(cost_per_serving(args), args.markup_multiplier), ClaimTaxMultiplier)
ClaimTaxableBase ==
    round(Div(FromInt(result.MenuPricePerServing), ClaimTaxMultiplier), 2)

\* C1: for arguments in the documented domain, the taxable base
\* round(menu_price / tax_multiplier, 2) plus the reported tax portion is
\* within 0.01 of the reported menu price.
C1_TaxReconciles ==
    (Returned /\ InDomain(args)) =>
        LET diff == Sub(Add(ClaimTaxableBase, result.TaxPortionPerServing),
                        FromInt(result.MenuPricePerServing))
        IN  /\ 100 * diff.n <= diff.d
            /\ 100 * diff.n >= -diff.d

C1_Witness ==
    /\ Returned /\ InDomain(args)
    /\ Positive(args.tax_rate)
    /\ Positive(result.TaxPortionPerServing)
    /\ ClaimPreRound.d # 1

\* C2: for arguments in the documented domain, the reported menu price is
\* the ceiling of cost_per_serving * markup_multiplier * (1 + tax_rate/100):
\* a whole number m with m >= pre_round and m < pre_round + 1.
C2_MenuPriceIsCeiling ==
    (Returned /\ InDomain(args)) =>
        LET m == result.MenuPricePerServing
            pre == ClaimPreRound
        IN  /\ m \in Int
            /\ m * pre.d >= pre.n
            /\ (m - 1) * pre.d < pre.n

C2_Witness ==
    /\ Returned /\ InDomain(args)
    /\ ClaimPreRound.d # 1
    /\ 2 * (ClaimPreRound.n % ClaimPreRound.d) < ClaimPreRound.d
    /\ result.MenuPricePerServing > 1

\* C3: the reported full-batch menu price equals the reported menu price
\* times the reported (truncated) servings.
C3_FullBatchUsesReportedServings ==
    (Returned /\ InDomain(args)) =>
        result.FullMeatMenuPrice =
            FromInt(result.MenuPricePerServing * result.Servings)

\* C4: when serving_size_lbs is 0 or the cooked weight is 0, the call
\* returns a record with servings 0, cost per serving 0 and menu price 0.
C4_DegenerateZero ==
    (/\ result # NoResult
     /\ Positive(args.pellet_bag_weight)
     /\ \/ args.serving_size_lbs = Zero
        \/ Mul(args.raw_meat_weight_lbs, cook_yield(args)) = Zero) =>
        /\ Returned
        /\ result.Servings = 0
        /\ result.CostPerServing = Zero
        /\ result.MenuPricePerServing = 0

C4_Witness ==
    /\ Returned
    /\ args.serving_size_lbs = Zero
    /\ Positive(args.raw_meat_weight_lbs)
    /\ result.TotalCost.n > 0

\* C5: for every argument record in the documented domain the call returns
\* a complete result record; it never raises.
ResultFields ==
    {"kind", "Date", "MeatType", "RawWeight", "CookedWeight", "YieldPct",
     "Servings", "MeatCost", "PelletUsed", "PelletCost", "TotalCost",
     "CostPerServing", "FullMeatMenuPrice", "MenuPricePerServing", "TaxRate",
     "TaxPortionPerServing", "MarkupMultiplier"}

PriceWithMarkup(m) == menu_price([args EXCEPT !.markup_multiplier = m])

C6_MonotoneInMarkup ==
    (Returned /\ InDomain(args)) =>
        LET price == [m \in ArgValues.markup_multiplier |->
                        PriceWithMarkup(m)]
        IN  \A m1, m2 \in ArgValues.markup_multiplier :
                LessEq(m1, m2) => price[m1] <= price[m2]

C6_Witness ==
    /\ Returned /\ InDomain(args)
    /\ \E m1 \in ArgValues.markup_multiplier :
        /\ Less(m1, args.markup_multiplier)
        /\ PriceWithMarkup(m1) < result.MenuPricePerServing

\* C9: the documented end-to-end example (brisket, 10 lbs at 3.50, serving
\* 0.5, 8 hours, bag 20 for 40 lbs, 1.5 lbs/hr, seasoning 5, misc 2,
\* markup 2, tax 11%) gives yield 60%, cooked 6.0, servings 12, pellet used
\* 12.0, pellet cost 9.0, meat cost 35.0, total 51.0, cost per serving
\* 4.25, menu price 10, taxable base 9.01, tax portion 0.99, full batch 120.
IsExample ==
    /\ args.meat_type \in {K_brisket, S_Brisket}
    /\ [args EXCEPT !.meat_type = S_Brisket] = DefaultArgs

C9_EndToEndExample ==
    (IsExample /\ result # NoResult) =>
        /\ Returned
        /\ result.YieldPct = FromInt(60)
        /\ result.CookedWeight = FromInt(6)
        /\ result.Servings = 12
        /\ result.PelletUsed = FromInt(12)
        /\ result.PelletCost = FromInt(9)
        /\ result.MeatCost = FromInt(35)
        /\ result.TotalCost = FromInt(51)
        /\ result.CostPerServing = Rat(425, 100)
        /\ result.MenuPricePerServing = 10
        /\ ClaimTaxableBase = Rat(901, 100)
        /\ result.TaxPortionPerServing = Rat(99, 100)
        /\ result.FullMeatMenuPrice = FromInt(120)

C9_Witness == IsExample /\ Returned /\ args.meat_type = K_brisket

-----------------------------------------------------------------------------
(* Claims about the lookup (checked under YieldSpec) *)

\* s and k are the same string up to the case of their letters
SameIgnoringCase(s, k) ==
    /\ Len(s) = Len(k)
    /\ \A i \in DOMAIN s :
        \/ s[i] = k[i]
        \/ \E j \in DOMAIN LowerLetters :
            {s[i], k[i]} = {LowerLetters[j], UpperLetters[j]}

\* the documented table of categories and their fractions, in hundredths
DocumentedYield ==
    (K_brisket :> 60) @@ (K_pork_butt :> 67) @@ (K_pork_shoulder :> 67) @@
    (K_ribs :> 65) @@ (K_beef_ribs :> 60) @@ (K_pork_ribs :> 65) @@
    (K_chicken :> 78) @@ (K_turkey :> 72) @@ (K_tri_tip :> 80) @@
    (K_sausage :> 90) @@ (K_other :> 70)

\* C7: get_default_yield is total; any case variant of a known category
\* returns that category's fraction, any other string returns 0.70, and
\* every returned fraction lies in (0, 1].
C7_YieldLookup ==
    (yield_result # NoYield) =>
        /\ ~IsRaised(yield_result)
        /\ \A k \in DOMAIN DocumentedYield :
            SameIgnoringCase(meat_type, k) =>
                yield_result = Rat(DocumentedYield[k], 100)
        /\ (~\E k \in DOMAIN DocumentedYield : SameIgnoringCase(meat_type, k)) =>
                yield_result = Rat(70, 100)
        /\ Positive(yield_result)
        /\ yield_result.n <= yield_result.d

C7_Witness ==
    /\ yield_result = Rat(78, 100)
    /\ SameIgnoringCase(meat_type, K_chicken)
    /\ meat_type # K_chicken
    /\ \E i \in DOMAIN meat_type : i > 1 /\ IsUpper(meat_type[i])

-----------------------------------------------------------------------------
(* Claims about the session (checked under Spec) *)

IsPrefix(s, t) == Len(s) <= Len(t) /\ \A i \in DOMAIN s : s[i] = t[i]

\* C8: the log starts empty, every Add to Log appends exactly one result
\* record at the end (so the log is as long as the number of Add to Log
\* presses), and every step of every action leaves the old log a prefix of
\* the new one.
C8_LogAppendOnly ==
    /\ log = <<>>
    /\ [][ /\ IsPrefix(log, log')
           /\ (~has_log /\ has_log') => log' = <<>>
           /\ Len(log') = add_clicks'
           /\ (add_clicks' # add_clicks) =>
                /\ Len(log') = Len(log) + 1
                /\ log'[Len(log')].kind = "returned" ]_vars

C8_Witness ==
    /\ authenticated
    /\ passcode_input = PASSCODE
    /\ Len(log) = 2
    /\ log[1] # log[2]
    /\ outbox.status = "sent"
    /\ Len(outbox.attachment) = 1

\* C10: the log grows and a report is mailed only in steps that begin and
\* end authenticated; authenticated turns true only in a login whose
\* entered passcode is the configured one; a login with any other passcode
\* changes neither authenticated nor the log.
C10_AuthenticationGatesLog ==
    [][ /\ (log' # log \/ outbox' # outbox \/ add_clicks' # add_clicks) =>
                (authenticated /\ authenticated')
        /\ (~authenticated /\ authenticated') =>
                (page = "login" /\ passcode_input' = PASSCODE)
        /\ (page = "login" /\ passcode_input' # PASSCODE) =>
                (authenticated' = authenticated /\ log' = log) ]_vars

C10_Witness ==
    /\ ~authenticated
    /\ Len(log) > 0
    /\ page = "login"
    /\ passcode_input = "wrong"

=============================================================================
